---- MODULE Spec2Model ----
(***************************************************************************)
(* A model of src/voxel.py: the class DAXMvoxel, its rotation table        *)
(* g_to_from, and its methods toFrame, scatter_vec0, pair_scattervec_plane,*)
(* deformation_gradientL2 and deformation_gradient_opt.                    *)
(*                                                                         *)
(* Numbers.  The arrays of the program hold float64 values.  The model     *)
(* computes with the real numbers those floats stand for, exactly, in the  *)
(* field Q(sqrt 2): a scalar <<a, b, d>> is (a + b*sqrt(2)) / d with d > 0 *)
(* and gcd(a, b, d) = 1.  That field holds the rationals and the cosines   *)
(* and sines of the three angles of the rotation table (multiples of pi/4).*)
(* Rounding is left out where it only perturbs a value in its last bits; it*)
(* is kept where it decides what the program does (numpy.linalg.inv, see   *)
(* inv below).                                                             *)
(***************************************************************************)
EXTENDS Integers, Sequences, FiniteSets, TLC

(***************************************************************************)
(* Scalars: exact arithmetic in Q(sqrt 2)                                  *)
(***************************************************************************)
Abs(n) == IF n < 0 THEN -n ELSE n

RECURSIVE GCD(_, _)
GCD(m, n) == IF n = 0 THEN m ELSE GCD(n, m % n)

\* the scalar (a + b*sqrt(2)) / d in lowest terms, d # 0
Q(a, b, d) ==
    LET g == GCD(GCD(Abs(a), Abs(b)), Abs(d))
        s == IF d < 0 THEN -1 ELSE 1
    IN  <<(s * a) \div g, (s * b) \div g, (s * d) \div g>>

Num(n) == <<n, 0, 1>>
Zero == Num(0)
One == Num(1)

Add(x, y) == Q(x[1] * y[3] + y[1] * x[3], x[2] * y[3] + y[2] * x[3], x[3] * y[3])
Neg(x) == <<-x[1], -x[2], x[3]>>
Sub(x, y) == Add(x, Neg(y))
Mul(x, y) == Q(x[1] * y[1] + 2 * x[2] * y[2], x[1] * y[2] + x[2] * y[1], x[3] * y[3])

\* 1/x for x # 0:  d*(a - b*sqrt 2) / (a^2 - 2*b^2)
Recip(x) == Q(x[3] * x[1], -(x[3] * x[2]), x[1] * x[1] - 2 * x[2] * x[2])
Div(x, y) == Mul(x, Recip(y))

\* the sign of a + b*sqrt(2): -1, 0 or 1
Sign(x) ==
    LET a == x[1]
        b == x[2]
    IN  IF a = 0 /\ b = 0 THEN 0
        ELSE IF a >= 0 /\ b >= 0 THEN 1
        ELSE IF a <= 0 /\ b <= 0 THEN -1
        ELSE IF a > 0 THEN (IF a * a > 2 * b * b THEN 1 ELSE -1)
        ELSE (IF 2 * b * b > a * a THEN 1 ELSE -1)

Less(x, y) == Sign(Sub(x, y)) < 0
Leq(x, y) == Sign(Sub(x, y)) <= 0

RECURSIVE ISqrt(_, _)
\* the largest r >= k with r*r <= n  (n >= k*k)
ISqrt(n, k) == IF (k + 1) * (k + 1) > n THEN k ELSE ISqrt(n, k + 1)

IsSquare(n) == n >= 0 /\ ISqrt(n, 0) * ISqrt(n, 0) = n

\* a rational p/d has its square root in Q(sqrt 2) iff p*d is k^2 or 2*k^2
HasSqrt(x) ==
    /\ x[2] = 0
    /\ x[1] >= 0
    /\ \/ IsSquare(x[1] * x[3])
       \/ (x[1] * x[3]) % 2 = 0 /\ IsSquare((x[1] * x[3]) \div 2)

\* sqrt(p/d) = sqrt(p*d)/d, for a scalar with HasSqrt
Sqrt(x) ==
    LET m == x[1] * x[3]
    IN  IF IsSquare(m) THEN Q(ISqrt(m, 0), 0, x[3])
        ELSE Q(0, ISqrt(m \div 2, 0), x[3])

RECURSIVE FloorFrom(_, _)
\* the largest integer t >= k with t <= x  (x >= k)
FloorFrom(x, k) == IF Less(x, Num(k + 1)) THEN k ELSE FloorFrom(x, k + 1)

\* the cast of a float to an integer dtype: truncation toward zero
Trunc(x) == IF Sign(x) >= 0 THEN FloorFrom(x, 0) ELSE -FloorFrom(Neg(x), 0)

(***************************************************************************)
(* Arrays.  A 1-D array is a sequence of scalars; a 2-D array is the       *)
(* sequence of its rows (numpy's a[i][j]).                                 *)
(***************************************************************************)
RECURSIVE Tab(_, _)
\* the array <<F(1), ..., F(n)>>, every entry computed once
Tab(F(_), n) == IF n = 0 THEN <<>> ELSE Append(Tab(F, n - 1), F(n))

RECURSIVE SumSeq(_)
SumSeq(s) == IF s = <<>> THEN Zero ELSE Add(Head(s), SumSeq(Tail(s)))

\* the inner product of two 1-D arrays of equal length
Inner(u, v) == SumSeq(Tab(LAMBDA k : Mul(u[k], v[k]), Len(u)))

NRows(m) == Len(m)
NCols(m) == IF Len(m) = 0 THEN 0 ELSE Len(m[1])

\* m[:, j]
Col(m, j) == Tab(LAMBDA i : m[i][j], NRows(m))

\* m.T
Transpose(m) == Tab(LAMBDA j : Col(m, j), NCols(m))

\* the 2-D array whose columns are the 1-D arrays of the sequence cols, each of length n
FromCols(cols, n) == Tab(LAMBDA i : Tab(LAMBDA j : cols[j][i], Len(cols)), n)

\* np.dot of a 2-D array with a 2-D array
Dot(a, b) == Tab(LAMBDA i : Tab(LAMBDA j : Inner(a[i], Col(b, j)), NCols(b)), NRows(a))

\* np.dot of a 2-D array with a 1-D array
DotVec(a, v) == Tab(LAMBDA i : Inner(a[i], v), NRows(a))

\* np.eye(3)
Eye3 == <<<<One, Zero, Zero>>, <<Zero, One, Zero>>, <<Zero, Zero, One>>>>

(***************************************************************************)
(* The rotation table (class body, lines 31-68).  Angles are counted in    *)
(* units of pi/4, where cosine and sine are exact in Q(sqrt 2).            *)
(***************************************************************************)
HalfSqrt2 == <<0, 1, 2>>

\* np.cos(n*pi/4)
Cos8(n) ==
    LET k == n % 8
    IN  CASE k = 0 -> One
          [] k = 1 -> HalfSqrt2
          [] k = 2 -> Zero
          [] k = 3 -> Neg(HalfSqrt2)
          [] k = 4 -> Neg(One)
          [] k = 5 -> Neg(HalfSqrt2)
          [] k = 6 -> Zero
          [] k = 7 -> HalfSqrt2

\* np.sin(n*pi/4)
Sin8(n) == Cos8(n - 2)

\* the rotation about the first axis written out at lines 33-35, 39-41, 45-47
Rot(theta) ==
    <<<<One, Zero, Zero>>,
      <<Zero, Cos8(theta), Neg(Sin8(theta))>>,
      <<Zero, Sin8(theta), Cos8(theta)>>>>

theta_1 == -4
R_XHF2TSL == Rot(theta_1)
R_TSL2XHF == Transpose(R_XHF2TSL)
theta_2 == -1
R_XHF2APS == Rot(theta_2)
R_APS2XHF == Transpose(R_XHF2APS)
theta_3 == -3
\* the rotation of line 45 with the sense of theta_3 reversed
R_APS2TSL_reversed == Rot(-theta_3)
R_APS2TSL == Rot(theta_3)
R_TSL2APS == Transpose(R_APS2TSL)
R_TSL2TSL == Eye3
R_APS2APS == Eye3
R_XHF2XHF == Eye3

g_to_from ==
    [APS |-> [APS |-> R_APS2APS, TSL |-> R_APS2TSL, XHF |-> R_APS2XHF],
     TSL |-> [APS |-> R_TSL2APS, TSL |-> R_TSL2TSL, XHF |-> R_TSL2XHF],
     XHF |-> [APS |-> R_XHF2APS, TSL |-> R_XHF2TSL, XHF |-> R_XHF2XHF]]

Frames == DOMAIN g_to_from

(***************************************************************************)
(* normalize (daxmexplorer.vecmath, imported at line 6): v / |v|.  The norm*)
(* of a vector is in general outside Q(sqrt 2), so a normalized entry is   *)
(* kept as the pair [n, r] standing for n / sqrt(r), r > 0.                *)
(***************************************************************************)
\* normalize(v) of a 1-D array
Over(v, r) == Tab(LAMBDA k : [n |-> v[k], r |-> r], Len(v))
normalize(v) == Over(v, Inner(v, v))

\* normalize(m, axis=0) of a 2-D array: every column divided by its norm
Over0(m, r) == Tab(LAMBDA i : Tab(LAMBDA j : [n |-> m[i][j], r |-> r[j]], NCols(m)), NRows(m))
normalize0(m) == Over0(m, Tab(LAMBDA j : Inner(Col(m, j), Col(m, j)), NCols(m)))

\* np.dot(u.T, m) of a normalized 1-D array with a normalized 2-D array
DotNormalized(u, m) ==
    Tab(LAMBDA j : [n |-> Inner(Tab(LAMBDA k : u[k].n, Len(u)), Tab(LAMBDA k : m[k][j].n, Len(u))),
                    r |-> Mul(u[1].r, m[1][j].r)],
        NCols(m))

\* x.n / sqrt(x.r) < y.n / sqrt(y.r)
LessNormalized(x, y) ==
    LET sx == Sign(x.n)
        sy == Sign(y.n)
        lhs == Mul(Mul(x.n, x.n), y.r)
        rhs == Mul(Mul(y.n, y.n), x.r)
    IN  IF sx # sy THEN sx < sy
        ELSE IF sx = 0 THEN FALSE
        ELSE IF sx > 0 THEN Less(lhs, rhs)
        ELSE Less(rhs, lhs)

\* the value n / sqrt(r) as a scalar, where sqrt(r) is in Q(sqrt 2)
ToScalar(x) == Div(x.n, Sqrt(x.r))

RECURSIVE ArgMinFrom(_, _, _)
\* the first index of the smallest of s[best], s[k], ..., s[Len(s)]
ArgMinFrom(s, best, k) ==
    IF k > Len(s) THEN best
    ELSE ArgMinFrom(s, IF LessNormalized(s[k], s[best]) THEN k ELSE best, k + 1)

\* np.argmin of a non-empty 1-D array: the first index of the smallest entry
argmin(s) == ArgMinFrom(s, 1, 2)

\* the store of a float into an array of the given dtype
Cast(dtype, x) == IF dtype = "int64" THEN Num(Trunc(x)) ELSE x

(***************************************************************************)
(* The voxel (lines 70-91) and the record of the calls made on it          *)
(***************************************************************************)
VARIABLES
    ref_frame,    \* self.ref_frame
    coords,       \* self.coords: 1-D, 3 entries
    scatter_vec,  \* self.scatter_vec: [dtype, a], a is 3 x N
    plane,        \* self.plane: [dtype, a], a is 3 x M
    recip_base,   \* self.recip_base: 3 x 3
    peak,         \* self.peak: 2 x N
    op,           \* the last call: [name, arg]
    pre,          \* the voxel as the last call found it
    ret,          \* what the last call returned: [kind, val]
    err,          \* the exception the last call raised, or None
    rst_opt,      \* what scipy.optimize.minimize gave the last call (line 237)
    read,         \* the last read of the rotation table: [to, from, err, val]
    read0         \* the read before it

vars == <<ref_frame, coords, scatter_vec, plane, recip_base, peak, op, pre, ret, err, rst_opt, read, read0>>
fields == <<ref_frame, coords, scatter_vec, plane, recip_base, peak>>

None == "None"

Self ==
    [ref_frame |-> ref_frame, coords |-> coords, scatter_vec |-> scatter_vec,
     plane |-> plane, recip_base |-> recip_base, peak |-> peak]

RetNone == [kind |-> None, val |-> <<>>]
RetMatrix(m) == [kind |-> "matrix", val |-> m]
\* a matrix numpy.linalg.inv computed from a pivot that is rounding noise
RetNoise == [kind |-> "noise", val |-> <<>>]

\* no optimizer ran
NoResult == [status |-> None, success |-> FALSE, x |-> <<>>]

\* the book-keeping of a call of method name with argument arg
Call(name, arg) ==
    /\ op' = [name |-> name, arg |-> arg]
    /\ pre' = Self
    /\ UNCHANGED <<read, read0>>

\* the call raises e: nothing is returned
Raise(e) == err' = e /\ ret' = RetNone
\* the call returns r
Return(r) == err' = None /\ ret' = r

(***************************************************************************)
(* toFrame (lines 161-174)                                                 *)
(***************************************************************************)
\* the names a function of the module can read without a qualifier: the module's
\* globals (lines 3-8).  A name bound in a class body, such as g_to_from, is an
\* attribute of the class and not among them.
ModuleGlobals == {"print_function", "h5py", "np", "normalize", "DAXMvoxel"}
Resolves(name) == name \in ModuleGlobals

\* toFrame with line 164 returning, as line 163 does, instead of raising
toFrame_lenient(target) ==
    /\ Call("toFrame", target)
    /\ rst_opt' = NoResult
    /\ IF target = None \/ target \notin DOMAIN g_to_from
       THEN Return(RetNone)
       ELSE Raise("NameError")
    /\ UNCHANGED fields

toFrame(target) ==
    /\ Call("toFrame", target)
    /\ rst_opt' = NoResult
    /\ IF target = None
       THEN Return(RetNone) /\ UNCHANGED fields
       ELSE IF ~Resolves("g_to_from")
       THEN Raise("NameError") /\ UNCHANGED fields
       ELSE IF target \notin DOMAIN g_to_from
       THEN Raise("Exception") /\ UNCHANGED fields
       ELSE /\ coords' = DotVec(g_to_from[target][ref_frame], coords)
            /\ scatter_vec' = [scatter_vec EXCEPT !.a = Dot(g_to_from[target][ref_frame], scatter_vec.a)]
            /\ recip_base' = Dot(g_to_from[target][ref_frame], recip_base)
            /\ Return(RetNone)
            /\ UNCHANGED <<ref_frame, plane, peak>>

(***************************************************************************)
(* scatter_vec0 (lines 152-159)                                            *)
(***************************************************************************)
\* abs(norm(v) - 1) <= 1e-8.  The vectors of the model have small entries with small
\* denominators, so their squared norms lie on a grid far coarser than the tolerance:
\* the band of the tolerance holds the value 1 of that grid and no other.
IsUnit(v) == Inner(v, v) = One

\* np.where(...) at line 156: the columns of the measured vectors of unit norm
idx_unit_q(v) == {j \in 1..NCols(v.scatter_vec.a) : IsUnit(Col(v.scatter_vec.a, j))}

\* the method on the voxel v: [err, q0]
\* lines 157-158: the columns unit of q0 scaled to unit norm
Matched(q0, unit, match_measured) ==
    IF ~match_measured THEN [err |-> None, q0 |-> q0]
    ELSE IF \E j \in unit : j > NCols(q0) THEN [err |-> "IndexError", q0 |-> <<>>]
    ELSE [err |-> None,
          q0 |-> Tab(LAMBDA i : Tab(LAMBDA j : IF j \in unit THEN ToScalar(normalize(Col(q0, j))[i])
                                                ELSE q0[i][j],
                                    NCols(q0)),
                     NRows(q0))]

scatter_vec0(v, match_measured) ==
    Matched(Dot(v.recip_base, v.plane.a), idx_unit_q(v), match_measured)

(***************************************************************************)
(* pair_scattervec_plane (lines 254-271)                                   *)
(***************************************************************************)
\* lines 262-265: the measured column paired with plane column i of the voxel v,
\* given the normalized measured vectors qs of line 259
idx(v, qs, i) ==
    LET q0 == normalize(DotVec(v.recip_base, Col(v.plane.a, i)))
        angular_diff == DotNormalized(q0, qs)
    IN  argmin(angular_diff)

\* the loop of lines 261-268 on the voxel v: the index paired with every plane
Paired(v, qs) == Tab(LAMBDA i : idx(v, qs, i), NCols(v.plane.a))

\* lines 256 and 266: np.zeros_like(self.plane) has the dtype of self.plane, and the
\* paired measured vectors are stored into it
new_scatter_vec(v, paired) ==
    FromCols(Tab(LAMBDA i : Tab(LAMBDA k : Cast(v.plane.dtype, v.scatter_vec.a[k][paired[i]]), 3),
                 NCols(v.plane.a)),
             3)

\* lines 257 and 267
new_peak(v, paired) == FromCols(Tab(LAMBDA i : Col(v.peak, paired[i]), NCols(v.plane.a)), 2)

\* lines 270-271
Update(v, paired) ==
    /\ scatter_vec' = [dtype |-> v.plane.dtype, a |-> new_scatter_vec(v, paired)]
    /\ peak' = new_peak(v, paired)

pair_scattervec_plane ==
    /\ Call("pair_scattervec_plane", None)
    /\ rst_opt' = NoResult
    /\ IF NCols(plane.a) > 0 /\ NCols(scatter_vec.a) = 0
       THEN Raise("ValueError") /\ UNCHANGED fields
       ELSE /\ Update(Self, Paired(Self, normalize0(scatter_vec.a)))
            /\ Return(RetNone)
            /\ UNCHANGED <<ref_frame, coords, plane, recip_base>>

(***************************************************************************)
(* numpy.linalg.inv (called at lines 191 and 252)                          *)
(***************************************************************************)
Det2(a, b, c, d) == Sub(Mul(a, d), Mul(b, c))

Det3(m) ==
    Add(Sub(Mul(m[1][1], Det2(m[2][2], m[2][3], m[3][2], m[3][3])),
            Mul(m[1][2], Det2(m[2][1], m[2][3], m[3][1], m[3][3]))),
        Mul(m[1][3], Det2(m[2][1], m[2][2], m[3][1], m[3][2])))

\* the cofactor of entry (i, j) of a 3 x 3 matrix
Cofactor(m, i, j) ==
    LET r1 == IF i = 1 THEN 2 ELSE 1
        r2 == IF i = 3 THEN 2 ELSE 3
        c1 == IF j = 1 THEN 2 ELSE 1
        c2 == IF j = 3 THEN 2 ELSE 3
        minor == Det2(m[r1][c1], m[r1][c2], m[r2][c1], m[r2][c2])
    IN  IF (i + j) % 2 = 0 THEN minor ELSE Neg(minor)

\* the inverse of a 3 x 3 matrix of non-zero determinant
Adjugate(m, d) == Tab(LAMBDA i : Tab(LAMBDA j : Div(Cofactor(m, j, i), d), 3), 3)
Inverse(m) == Adjugate(m, Det3(m))

RECURSIVE IsPow2(_)
IsPow2(n) == n >= 1 /\ (n = 1 \/ (n % 2 = 0 /\ IsPow2(n \div 2)))

\* a value a float64 holds exactly (the model's values are small)
Dyadic(x) == x[2] = 0 /\ IsPow2(x[3])
\* plus or minus a power of two: its reciprocal and every quotient by it are exact
PowerOfTwo(x) == Dyadic(x) /\ IsPow2(Abs(x[1]))

AbsS(x) == IF Sign(x) < 0 THEN Neg(x) ELSE x

\* the array the factorisation works on: of every entry its value v in exact arithmetic,
\* and whether the float64 of the run is exactly that value
Held(m) == Tab(LAMBDA i : Tab(LAMBDA j : [v |-> m[i][j], exact |-> Dyadic(m[i][j])], Len(m[i])), Len(m))

\* the pivot row of the first column: the first entry of largest magnitude
PivotRow(m) ==
    CHOOSE p \in 1..Len(m) :
        /\ \A i \in 1..Len(m) : ~Less(AbsS(m[p][1].v), AbsS(m[i][1].v))
        /\ \A i \in 1..(p - 1) : Less(AbsS(m[i][1].v), AbsS(m[p][1].v))

\* m with rows 1 and p exchanged
SwapRows(m, p) == Tab(LAMBDA i : IF i = 1 THEN m[p] ELSE IF i = p THEN m[1] ELSE m[i], Len(m))

\* the entry x of a row below the pivot row once its column-1 entry c is eliminated with
\* the pivot p, u being the entry of the pivot row above x: x - (c / p) * u.  The float
\* is the exact value when the multiplier is zero, when u is zero, or when nothing
\* rounds: the operands are exact, and p is plus or minus a power of two.
Eliminate(x, c, p, u) ==
    [v |-> Sub(x.v, Mul(Div(c.v, p.v), u.v)),
     exact |-> /\ x.exact
               /\ \/ c.exact /\ Sign(c.v) = 0
                  \/ u.exact /\ Sign(u.v) = 0
                  \/ c.exact /\ p.exact /\ u.exact /\ PowerOfTwo(p.v)]

\* what is left of m (pivot in row 1) once column 1 is eliminated
Schur(m) ==
    Tab(LAMBDA i : Tab(LAMBDA j : Eliminate(m[i + 1][j + 1], m[i + 1][1], m[1][1], m[1][j + 1]),
                       Len(m) - 1),
        Len(m) - 1)

RECURSIVE Getrf(_)
\* LAPACK's LU factorisation with partial pivoting, as numpy.linalg.inv runs it:
\*   "singular"  a pivot is exactly zero (numpy raises LinAlgError);
\*   "rounded"   a pivot that is zero in exact arithmetic was computed with rounding;
\*   "regular"   every pivot is non-zero.
Getrf(m) ==
    IF Len(m) = 0 THEN "regular"
    ELSE IF Sign(m[PivotRow(m)][1].v) # 0 THEN Getrf(Schur(SwapRows(m, PivotRow(m))))
    ELSE IF \A i \in 1..Len(m) : m[i][1].exact THEN "singular"
    ELSE "rounded"

\* the outcomes of numpy.linalg.inv(m), each [err, ret].  A matrix of non-zero
\* determinant is inverted (the model's matrices are small and well away from
\* singular ones).  A matrix of determinant zero raises LinAlgError when the run finds
\* an exactly zero pivot.  A pivot computed with rounding is either zero or rounding
\* noise, depending on the order of the floating-point operations of the LAPACK
\* build, and with noise numpy returns a matrix.
inv(m) ==
    IF Sign(Det3(m)) # 0 THEN {[err |-> None, ret |-> RetMatrix(Inverse(m))]}
    ELSE IF Getrf(Held(m)) = "singular" THEN {[err |-> "LinAlgError", ret |-> RetNone]}
    ELSE {[err |-> "LinAlgError", ret |-> RetNone], [err |-> None, ret |-> RetNoise]}

(***************************************************************************)
(* deformation_gradientL2 (lines 176-191)                                  *)
(***************************************************************************)
\* np.dot(a, b.T)
DotT(a, b) == Tab(LAMBDA i : Tab(LAMBDA j : Inner(a[i], b[j]), NRows(b)), NRows(a))

\* line 186 with its operands exchanged
MatA_exchanged(q, q0) == DotT(q0, q)
\* line 186, for measured vectors q and strain-free vectors q0
MatA(q, q0) == DotT(q, q0)
\* line 187
MatB(q0) == DotT(q0, q0)

\* line 191 with the product taken in the other order: np.dot(inv(A), B).T
SolveL2_otherOrder(invA, B) == Transpose(Dot(invA, B))
\* line 191, given what numpy.linalg.inv(A) returned: np.dot(inv(A).T, B.T)
SolveL2(invA, B) == Dot(Transpose(invA), Transpose(B))

\* lines 186-191, for measured vectors q and what scatter_vec0 gave
L2(q, s0) ==
    IF s0.err # None THEN Raise(s0.err)
    ELSE IF NCols(q) # NCols(s0.q0) THEN Raise("ValueError")
    ELSE \E o \in inv(MatA(q, s0.q0)) :
             IF o.err # None THEN Raise(o.err)
             ELSE IF o.ret.kind = "noise" THEN Return(RetNoise)
             ELSE Return(RetMatrix(SolveL2(o.ret.val, MatB(s0.q0))))

deformation_gradientL2 ==
    /\ Call("deformation_gradientL2", None)
    /\ rst_opt' = NoResult
    /\ UNCHANGED fields
    /\ L2(scatter_vec.a, scatter_vec0(Self, TRUE))

(***************************************************************************)
(* deformation_gradient_opt (lines 193-252)                                *)
(***************************************************************************)
\* the default of the parameter eps (line 193): 1e-1
eps_default == Q(1, 0, 10)

AddM(a, b) == Tab(LAMBDA i : Tab(LAMBDA j : Add(a[i][j], b[i][j]), NCols(a)), NRows(a))

\* lines 202-203, for the 9 parameters f taken as a 3 x 3 array
constraint(constraint_f, e) ==
    Sub(Mul(Num(NRows(constraint_f) * NCols(constraint_f)), e),
        SumSeq(Tab(LAMBDA k : AbsS(constraint_f[((k - 1) \div 3) + 1][((k - 1) % 3) + 1]), 9)))

\* the exception objectiveDante (lines 223-235) raises on the arrays of the voxel v,
\* whatever f is: the subtraction of line 227 broadcasts a 3 x N with a 3 x M array,
\* and line 232 indexes the 3 x M estimate with the columns of the measured
\* vectors that are not of unit norm
ObjectiveError(v) ==
    LET N == NCols(v.scatter_vec.a)
        M == NCols(v.plane.a)
        idx_full_q == (1..N) \ idx_unit_q(v)
    IN  IF N # M /\ N # 1 /\ M # 1 THEN "ValueError"
        ELSE IF \E j \in idx_full_q : j > M THEN "IndexError"
        ELSE None

Diag(a, b, c) == <<<<a, Zero, Zero>>, <<Zero, b, Zero>>, <<Zero, Zero, c>>>>

\* parameter vectors (reshaped 3 x 3) the optimizer may stop at: a small strain inside
\* the constraint, and a point outside of it
OptPoints == {Diag(Q(1, 0, 8), Zero, Zero), Diag(Num(-1), Zero, Zero)}

\* scipy.optimize.minimize (lines 237-249) with method COBYLA: it raises, or it returns
\* a result with the point x it stopped at and the flag success, which is true only
\* for a point that meets the constraint
minimize(e) ==
    {[status |-> "raised", success |-> FALSE, x |-> <<>>]}
    \cup {[status |-> "returned", success |-> b, x |-> x] :
             <<x, b>> \in {xb \in OptPoints \X BOOLEAN : xb[2] => Sign(constraint(xb[1], e)) >= 0}}

deformation_gradient_opt(e) ==
    /\ Call("deformation_gradient_opt", None)
    /\ UNCHANGED fields
    /\ IF ObjectiveError(Self) # None
       THEN Raise(ObjectiveError(Self)) /\ rst_opt' = NoResult
       ELSE \E r \in minimize(e) :
              /\ rst_opt' = r
              /\ IF r.status = "raised" THEN Raise("OptimizerError")
                 ELSE LET fstar == AddM(Eye3, r.x)
                      IN  \E o \in inv(fstar) :
                             IF o.err # None THEN Raise(o.err)
                             ELSE IF o.ret.kind = "noise" THEN Return(RetNoise)
                             ELSE Return(RetMatrix(Transpose(o.ret.val)))

(***************************************************************************)
(* Construction (lines 70-91)                                              *)
(***************************************************************************)
MaxN == 2
MaxM == 2
MaxCols == 3

V(a, b, c) == <<Num(a), Num(b), Num(c)>>

RECURSIVE SeqOfSet(_, _)
\* the entries of list at the indices of S, in the order of the list
SeqOfSet(list, S) ==
    IF S = {} THEN <<>>
    ELSE LET k == CHOOSE k \in S : \A j \in S : k <= j
         IN  <<list[k]>> \o SeqOfSet(list, S \ {k})

\* the sub-lists of list of lo to hi entries
SubLists(list, lo, hi) ==
    {SeqOfSet(list, S) : S \in {T \in SUBSET (1..Len(list)) : Cardinality(T) \in lo..hi}}

\* Miller indices
PlaneCols == <<V(1, 0, 0), V(0, 1, 0), V(0, 0, 1), V(1, 0, 1)>>

\* measured scattering vectors: of full length, of unit norm, and with fractional
\* components
MeasCols == <<V(2, 0, 0), V(1, 0, 0), V(2, 2, 0), V(0, 0, 2), <<Q(3, 0, 2), Q(1, 0, 2), Zero>>>>
\* measured vectors that span a plane only
PlanarCols == <<V(1, 4, 7), V(2, 5, 8), V(3, 6, 9)>>

Shear == <<<<One, One, Zero>>, <<Zero, One, Zero>>, <<Zero, Zero, One>>>>
RecipBases == {Eye3, Shear}

\* detector coordinates, one column per measured vector
PeakOf(N) == FromCols(Tab(LAMBDA j : <<Num(j), Num(10 * j)>>, N), 2)

NoCall == [name |-> "__init__", arg |-> None]
NoRead == [to |-> None, from |-> None, err |-> None, val |-> <<>>]

\* the voxel as constructed from the columns sv of scatter_vec and pl of plane
Constructed(frame, c, sv, pl, dtype, rb) ==
    /\ ref_frame = frame
    /\ coords = c
    /\ scatter_vec = [dtype |-> "float64", a |-> FromCols(sv, 3)]
    /\ plane = [dtype |-> dtype, a |-> FromCols(pl, 3)]
    /\ recip_base = rb
    /\ peak = PeakOf(Len(sv))
    /\ op = NoCall
    /\ pre = Self
    /\ ret = RetNone
    /\ err = None
    /\ rst_opt = NoResult
    /\ read = NoRead
    /\ read0 = NoRead

\* voxels with up to MaxN measured vectors and up to MaxM indexed planes, the planes
\* held as integers or as floats
Init ==
    \E sv \in SubLists(MeasCols, 0, MaxN), M \in 0..MaxM,
       dtype \in {"int64", "float64"}, rb \in RecipBases :
        Constructed("APS", V(1, 2, 3), sv, SubSeq(PlaneCols, 1, M), dtype, rb)

\* as many measured vectors as planes, or one fewer or more: the voxels the solvers
\* are meant for, and those next to them
InitMeasured ==
    \E sv \in SubLists(MeasCols, MaxCols - 1, MaxCols) \cup SubLists(PlanarCols, MaxCols - 1, MaxCols),
       M \in (MaxCols - 1)..MaxCols :
        Constructed("APS", V(1, 2, 3), sv, SubSeq(PlaneCols, 1, M), "float64", Eye3)

\* reciprocal-space deformation gradients F* (test_fstar, line 283)
FstarSet ==
    {<<<<Num(2), Num(2), Zero>>, <<Zero, Num(2), Zero>>, <<Zero, Zero, Num(2)>>>>,
     Diag(Num(2), Num(2), Num(2)),
     <<<<One, One, Zero>>, <<Zero, One, One>>, <<One, Zero, Num(2)>>>>,
     <<<<Q(9, 0, 8), Q(1, 0, 8), Zero>>, <<Zero, Q(9, 0, 8), Zero>>, <<Zero, Zero, Q(7, 0, 8)>>>>}

\* the voxel of the demonstration (lines 282-299): the measured vectors are the
\* strain-free ones deformed by F* (line 287), the first unit of them then scaled to
\* unit norm (line 288)
InitDemo ==
    \E Fs \in FstarSet, M \in (MaxCols - 1)..MaxCols, rb \in RecipBases, unit \in 0..1 :
        LET vec0 == Dot(rb, FromCols(SubSeq(PlaneCols, 1, M), 3))
            vec == Dot(Fs, vec0)
            normed == normalize(Col(vec, 1))
        IN  /\ unit = 1 => HasSqrt(normed[1].r)
            /\ Constructed("APS", V(1, 1, 1),
                           Tab(LAMBDA j : IF j <= unit THEN Tab(LAMBDA i : ToScalar(normed[i]), 3)
                                          ELSE Col(vec, j), M),
                           SubSeq(PlaneCols, 1, M), "float64", rb)

InitSolve == InitMeasured \/ InitDemo

\* voxels in each of the frames
InitFrame ==
    \E frame \in Frames, c \in {V(1, 2, 3), V(0, 0, 0)}, sv \in SubLists(SubSeq(MeasCols, 1, 2), 0, 2),
       M \in 0..1, rb \in RecipBases :
        Constructed(frame, c, sv, SubSeq(PlaneCols, 1, M), "float64", rb)

(***************************************************************************)
(* A read of the rotation table, g_to_from[to][from] (lines 168, 171, 174) *)
(***************************************************************************)
Lookup(to, from) ==
    /\ read0' = read
    /\ read' = IF to \in DOMAIN g_to_from /\ from \in DOMAIN g_to_from[to]
               THEN [to |-> to, from |-> from, err |-> None, val |-> g_to_from[to][from]]
               ELSE [to |-> to, from |-> from, err |-> "KeyError", val |-> <<>>]
    /\ UNCHANGED <<fields, op, pre, ret, err, rst_opt>>

(***************************************************************************)
(* The specifications                                                      *)
(***************************************************************************)
\* target tags: none, the registered ones, and one that is not registered
\* values of eps: the default, and one no parameter vector can meet
EpsSet == {eps_default, Neg(eps_default)}

Targets == {None} \cup Frames \cup {"LAB"}

Next ==
    \/ \E target \in Targets : toFrame(target)
    \/ pair_scattervec_plane
    \/ deformation_gradientL2
    \/ \E e \in EpsSet : deformation_gradient_opt(e)

\* the methods, on voxels with few vectors and planes
Spec == Init /\ [][Next]_vars
\* the methods, on voxels the solvers are meant for
SpecSolve == InitSolve /\ [][Next]_vars
\* the methods, on voxels in each of the frames
SpecFrame == InitFrame /\ [][Next]_vars

NextTable == \E to \in Frames \cup {"LAB"}, from \in Frames \cup {"LAB"} : Lookup(to, from)

\* the reads of the rotation table, on the voxel of the constructor's defaults
SpecTable == Constructed("APS", V(0, 0, 0), <<>>, <<>>, "float64", Eye3) /\ [][NextTable]_vars

(***************************************************************************)
(* The claims                                                              *)
(***************************************************************************)
\* the strain-free vectors of the voxel the last call found, for the solver
Q0Pre == Dot(pre.recip_base, pre.plane.a)
\* the last call is a call of the method name
Called(name) == op.name = name
Converted(target) == g_to_from[target][pre.ref_frame]

\* C1: after toFrame with a registered target other than the voxel's frame, ref_frame is
\* the target, and coords, scatter_vec and recip_base are g[target][old frame] applied
\* to their previous values.
C1_ConvertSetsFrame ==
    (Called("toFrame") /\ op.arg \in Frames /\ op.arg # pre.ref_frame) =>
        /\ err = None
        /\ ref_frame = op.arg
        /\ coords = DotVec(Converted(op.arg), pre.coords)
        /\ scatter_vec.a = Dot(Converted(op.arg), pre.scatter_vec.a)
        /\ recip_base = Dot(Converted(op.arg), pre.recip_base)

\* C2: toFrame(X) followed by toFrame(F0), F0 the frame the voxel had before the first
\* of the two calls, restores coords, scatter_vec and recip_base and leaves ref_frame
\* equal to F0.
C2_RoundTripRestores ==
    [][(Called("toFrame") /\ op.arg \in Frames /\ op'.name = "toFrame" /\ op'.arg = pre.ref_frame) =>
           /\ err = None
           /\ err' = None
           /\ coords' = pre.coords
           /\ scatter_vec' = pre.scatter_vec
           /\ recip_base' = pre.recip_base
           /\ ref_frame' = pre.ref_frame]_vars

CosinesPre(i) ==
    DotNormalized(normalize(DotVec(pre.recip_base, Col(pre.plane.a, i))), normalize0(pre.scatter_vec.a))

\* the voxel the last call found is as constructed: peak column j is (j, 10 j)
FreshPre == pre.peak = PeakOf(NCols(pre.scatter_vec.a))

\* C4: for every plane column i, pair_scattervec_plane puts at position i the measured
\* vector (known by its peak) whose cosine with the direction of the plane is largest,
\* that is whose angle to it is smallest.
C4_PairsSmallestAngle ==
    (Called("pair_scattervec_plane") /\ err = None /\ FreshPre) =>
        \A i \in 1..NCols(pre.plane.a) :
            \A k \in 1..NCols(pre.scatter_vec.a) :
                ~LessNormalized(CosinesPre(i)[peak[1][i][1]], CosinesPre(i)[k])

\* what C5 and C6 ask of the voxel the last call found: scatter_vec0 succeeds and there
\* are as many measured vectors as planes
SolvablePre ==
    /\ scatter_vec0(pre, TRUE).err = None
    /\ NCols(pre.scatter_vec.a) = NCols(pre.plane.a)

APre == MatA(pre.scatter_vec.a, scatter_vec0(pre, TRUE).q0)
BPre == MatB(scatter_vec0(pre, TRUE).q0)

\* C5 as stated: deformation_gradientL2 returns (inv(A) . B)^T for every voxel with A
\* invertible.
C5_ReturnsInvATimesB ==
    (Called("deformation_gradientL2") /\ SolvablePre /\ Sign(Det3(APre)) # 0) =>
        ret = RetMatrix(Transpose(Dot(Inverse(APre), BPre)))

\* C5 as amended: deformation_gradientL2 returns (B . inv(A))^T, which is
\* inv(A)^T . B^T, for every voxel with A invertible.
C5_ReturnsBTimesInvA ==
    (Called("deformation_gradientL2") /\ SolvablePre /\ Sign(Det3(APre)) # 0) =>
        /\ err = None
        /\ ret = RetMatrix(Transpose(Dot(BPre, Inverse(APre))))

\* the solver ran on a voxel where inv(A) and B do not commute
C5_Witness ==
    /\ Called("deformation_gradientL2")
    /\ SolvablePre
    /\ Sign(Det3(APre)) # 0
    /\ ret.kind = "matrix"
    /\ Dot(BPre, Inverse(APre)) # Dot(Inverse(APre), BPre)

\* the measured vectors of the voxel the last call found are Fs . q0, q0 has rank 3 and
\* no measured vector is of unit norm
DeformedBy(Fs) ==
    /\ NCols(pre.plane.a) >= 3
    /\ pre.scatter_vec.a = Dot(Fs, Q0Pre)
    /\ Sign(Det3(MatB(Q0Pre))) # 0
    /\ idx_unit_q(pre) = {}

\* C6: when the measured vectors are F* . q0 for an invertible F*, q0 has rank 3 and no
\* measured vector is of unit norm, deformation_gradientL2 returns F with
\* F^T . F* = I.
C6_RecoversDeformation ==
    \A Fs \in FstarSet :
        (Called("deformation_gradientL2") /\ DeformedBy(Fs)) =>
            /\ err = None
            /\ ret.kind = "matrix"
            /\ Dot(Transpose(ret.val), Fs) = Eye3

\* the solver ran on vectors deformed by an F* that is not symmetric, in a sheared base
C6_Witness ==
    /\ Called("deformation_gradientL2")
    /\ \E Fs \in FstarSet : DeformedBy(Fs) /\ Fs # Transpose(Fs)
    /\ pre.recip_base = Shear
    /\ ret.kind = "matrix"

\* C7: when the optimizer raises or reports that it did not converge,
\* deformation_gradient_opt raises and returns no deformation gradient.
C7_UnconvergedFails ==
    (Called("deformation_gradient_opt") /\ rst_opt.status # None
        /\ (rst_opt.status = "raised" \/ ~rst_opt.success)) =>
        /\ err # None
        /\ ret = RetNone

\* C8: when A = q . q0^T is singular, deformation_gradientL2 raises and returns no
\* matrix.
C8_SingularFails ==
    (Called("deformation_gradientL2") /\ SolvablePre /\ Sign(Det3(APre)) = 0) =>
        /\ err # None
        /\ ret = RetNone

\* C9: after pair_scattervec_plane on a voxel with N >= 1 measured vectors and M planes,
\* scatter_vec and peak have M columns, and every column i of the two is one and the
\* same column j of the scatter_vec and the peak the call found, unaltered.
C9_PairedColumnsOriginal ==
    (Called("pair_scattervec_plane") /\ err = None /\ NCols(pre.scatter_vec.a) >= 1) =>
        /\ NCols(scatter_vec.a) = NCols(pre.plane.a)
        /\ NCols(peak) = NCols(pre.plane.a)
        /\ \A i \in 1..NCols(pre.plane.a) :
               \E j \in 1..NCols(pre.scatter_vec.a) :
                   /\ Col(scatter_vec.a, i) = Col(pre.scatter_vec.a, j)
                   /\ Col(peak, i) = Col(pre.peak, j)

\* C10: g[a][a] is the identity, g[a][b] . g[b][a] is the identity, and
\* g[a][b] . g[b][c] = g[a][c], for all frames a, b, c: stated of every read
\* g[b][c] of the table and of the read g[a][b] before it.
C10_TableConsistent ==
    (read.to \in Frames /\ read.from \in Frames) =>
        /\ read.err = None
        /\ read.to = read.from => read.val = Eye3
        /\ (read0.to \in Frames /\ read0.from = read.to) =>
               /\ Dot(read0.val, read.val) = g_to_from[read0.to][read.from]
               /\ read0.to = read.from => Dot(read0.val, read.val) = Eye3

\* g[TSL][APS] was read, then g[APS][XHF]: a change through a third frame
C10_Witness ==
    /\ read0.to = "TSL" /\ read0.from = "APS" /\ read0.err = None
    /\ read.to = "APS" /\ read.from = "XHF" /\ read.err = None
    /\ read.val # Eye3
====
